---------------------------- MODULE Spec2Model ----------------------------
(***************************************************************************)
(* Model of the property image compositor (src/src/compositor).            *)
(*                                                                         *)
(*   Spec      compose_image: sidecar -> layer stack -> output files,      *)
(*             with the per-layer try/except blocks and the PSD fallback.  *)
(*   SpecProj  world_to_screen as a pure function over bounded inputs.     *)
(*   SpecNice  _nice_round, SpecGrid  compute_grid, SpecChan               *)
(*             _cairo_surface_to_channels, each over bounded inputs.       *)
(*                                                                         *)
(* Floating point values are modelled as exact rationals <<num, den>>      *)
(* with den > 0, reduced to lowest terms.                                  *)
(***************************************************************************)
EXTENDS Integers, Sequences, FiniteSets, TLC

VARIABLES
    pc,        \* position inside compose_image
    args,      \* compose_image arguments: output_path, output_format, stage
    sidecar,   \* parsed sidecar JSON
    layers,    \* the `layers` list
    fs,        \* the filesystem: path -> file content or Absent
    exc,       \* exception that left compose_image ("input": the sidecar or
               \* the background could not be loaded), or "none"
    warned,    \* the warnings printed by the except blocks
    drawn,     \* overlays whose draw call returned a surface
    threw,     \* overlays whose draw call raised
    pj_in,     \* world_to_screen call: its arguments
    pj_out,    \* world_to_screen call: its result
    fn_in,     \* call of a helper (_nice_round, compute_grid,
               \* _cairo_surface_to_channels): its argument
    fn_out     \* call of a helper: its result

composeVars == <<pc, args, sidecar, layers, fs, exc, warned, drawn, threw>>
projVars == <<pj_in, pj_out>>
helperVars == <<fn_in, fn_out>>
pureVars == <<pj_in, pj_out, fn_in, fn_out>>
vars == <<pc, args, sidecar, layers, fs, exc, warned, drawn, threw, pj_in, pj_out, fn_in, fn_out>>

-----------------------------------------------------------------------------
(* Exact rational arithmetic                                               *)

Abs(n) == IF n < 0 THEN -n ELSE n

RECURSIVE Gcd(_, _)
Gcd(a, b) == IF b = 0 THEN a ELSE Gcd(b, a % b)

\* A rational in lowest terms with a positive denominator.
Frac(n, d) ==
    LET s == IF d < 0 THEN -1 ELSE 1
        g == Gcd(Abs(n), Abs(d))
    IN  <<(s * n) \div g, (s * d) \div g>>

FInt(n) == <<n, 1>>
FAdd(a, b) == Frac(a[1] * b[2] + b[1] * a[2], a[2] * b[2])
FSub(a, b) == Frac(a[1] * b[2] - b[1] * a[2], a[2] * b[2])
FMul(a, b) == Frac(a[1] * b[1], a[2] * b[2])
FLt(a, b) == a[1] * b[2] < b[1] * a[2]
FGt(a, b) == FLt(b, a)
FLe(a, b) == a[1] * b[2] <= b[1] * a[2]
FDiv(a, b) == Frac(a[1] * b[2], a[2] * b[1])
\* math.floor and math.ceil
FFloor(a) == a[1] \div a[2]
FCeil(a) == 0 - ((0 - a[1]) \div a[2])
FHalf == <<1, 2>>

-----------------------------------------------------------------------------
(* project.py                                                              *)

\* Python's None where a list or an array is expected (a missing matrix, no
\* frame transform, a missing sidecar key).
Absent == <<>>

\* Results of a call: it raised, it returned None, or it returned a value.
Raise == [tag |-> "raise"]
RetNone == [tag |-> "none"]

\* np.array(flat).reshape((4, 4), order='F'): element (r, c) of a
\* column-major list of 16.
ReshapeF(flat) == [r \in 1..4 |-> [c \in 1..4 |-> flat[(c - 1) * 4 + r]]]

\* m @ v for a 4x4 matrix and a 4-vector.
MatVec(m, v) ==
    [r \in 1..4 |-> m[r][1] * v[1] + m[r][2] * v[2] + m[r][3] * v[3] + m[r][4] * v[4]]

\* v_clip[3] <= 0: the point is behind the camera plane.
BehindCamera(w) == w <= 0

\* screen_x = (ndc[0] + 1.0) * 0.5 * viewport_width
ScreenX(ndc_x, viewport_width) ==
    FMul(FMul(FAdd(ndc_x, FInt(1)), FHalf), FInt(viewport_width))

\* A vertical mapping without the flip of the axis (y growing upwards).
ScreenYNoFlip(ndc_y, viewport_height) ==
    FMul(FMul(FAdd(ndc_y, FInt(1)), FHalf), FInt(viewport_height))

\* screen_y = (1.0 - ndc[1]) * 0.5 * viewport_height
ScreenY(ndc_y, viewport_height) ==
    FMul(FMul(FSub(FInt(1), ndc_y), FHalf), FInt(viewport_height))

\* A matrix argument that reshape((4, 4)) accepts.
IsMatrix16(m) == Len(m) = 16

\* world_to_screen(point_3d, view_matrix_1d, proj_matrix_1d, viewport_width,
\*                 viewport_height, enu_transform)
\* Result: Raise, RetNone, or [tag |-> "pos", x |-> rational, y |-> rational].
world_to_screen(point_3d, view_matrix_1d, proj_matrix_1d, viewport_width, viewport_height, enu_transform) ==
    IF ~IsMatrix16(view_matrix_1d) \/ ~IsMatrix16(proj_matrix_1d)
    THEN Raise                      \* reshape raises ValueError
    ELSE IF Len(point_3d) < 3
    THEN Raise                      \* point_3d[2] raises IndexError
    ELSE
      LET view_matrix == ReshapeF(view_matrix_1d)
          proj_matrix == ReshapeF(proj_matrix_1d)
          v_world0 == <<point_3d[1], point_3d[2], point_3d[3], 1>>
          v_world == IF enu_transform # Absent
                     THEN MatVec(enu_transform, v_world0)
                     ELSE v_world0
          v_camera == MatVec(view_matrix, v_world)
          v_clip == MatVec(proj_matrix, v_camera)
      IN  IF BehindCamera(v_clip[4])
          THEN RetNone
          ELSE [tag |-> "pos",
                x |-> ScreenX(Frac(v_clip[1], v_clip[4]), viewport_width),
                y |-> ScreenY(Frac(v_clip[2], v_clip[4]), viewport_height)]

-----------------------------------------------------------------------------
(* Bounded inputs of the projection                                        *)

IdentityFlat == <<1, 0, 0, 0,  0, 1, 0, 0,  0, 0, 1, 0,  0, 0, 0, 1>>

\* Column-major perspective matrix with clip.w = -z (camera looks down -z).
PerspFlat == <<1, 0, 0, 0,  0, 1, 0, 0,  0, 0, 1, -1,  0, 0, 0, 0>>

\* Column-major view matrix translating by (1, 0, -2).
ViewShiftFlat == <<1, 0, 0, 0,  0, 1, 0, 0,  0, 0, 1, 0,  1, 0, -2, 1>>

\* Column-major projection with clip.w = y - z.
SkewFlat == <<2, 0, 0, 0,  0, 1, 0, 1,  0, 0, 1, -1,  0, 0, 0, 0>>

\* A 4x4 local->global frame: east and north swapped, translated by (0, 0, -2).
FrameSwap == <<<<0, 1, 0, 0>>, <<1, 0, 0, 0>>, <<0, 0, 1, -2>>, <<0, 0, 0, 1>>>>

MaxCoord == 2

ProjCoords == (0 - MaxCoord)..MaxCoord

ProjPoints ==
    {<<x, y, z>> : x \in ProjCoords, y \in {-1, 0, 1}, z \in ProjCoords}
        \cup {<<1, 1>>}

ProjViews == {IdentityFlat, ViewShiftFlat}
ProjProjs == {PerspFlat, SkewFlat, IdentityFlat}
ProjFrames == {Absent, FrameSwap}
ProjViewports == {<<100, 100>>, <<2048, 1536>>}

ProjInputs ==
    [point : ProjPoints, view : ProjViews, proj : ProjProjs,
     frame : ProjFrames, viewport : ProjViewports]

ProjIdle == [tag |-> "idle"]

ProjInit ==
    /\ pj_in \in ProjInputs
    /\ pj_out = ProjIdle

\* One call of world_to_screen on the chosen arguments.
ProjCall ==
    /\ pj_out = ProjIdle
    /\ pj_out' = world_to_screen(pj_in.point, pj_in.view, pj_in.proj,
                                 pj_in.viewport[1], pj_in.viewport[2], pj_in.frame)
    /\ UNCHANGED pj_in
    /\ UNCHANGED composeVars
    /\ UNCHANGED helperVars

\* The caller moves on to another point under the same camera.
ProjNextPoint ==
    /\ pj_out # ProjIdle
    /\ \E p \in ProjPoints : pj_in' = [pj_in EXCEPT !.point = p]
    /\ pj_out' = ProjIdle
    /\ UNCHANGED composeVars
    /\ UNCHANGED helperVars

-----------------------------------------------------------------------------
(* Bounded inputs of compose_image                                         *)

MaxBoundary == 3
MaxLabels == 2

\* Background image size (bg_surface.get_width/get_height), which is also
\* the viewport of the test scene.
ImgSize == 100

\* sidecar['viewport']: the size of the image, or no 'viewport' key and the
\* defaults of compose.py:63-64.
DefaultViewport == <<2048, 1536>>
Viewports == {<<ImgSize, ImgSize>>, DefaultViewport}

\* World points of the scene under PerspFlat and the identity view:
\* PtFront projects to the image centre, PtBehind has clip.w < 0,
\* PtSide projects above the centre, PtFar projects far outside the image.
\* Under the frame of AxesSwap and OriginPt all of them lie in front of the
\* camera.
PtFront == <<0, 0, -1>>
PtBehind == <<0, 0, 1>>
PtSide == <<0, 1, -2>>
PtFar == <<10, 0, -1>>

\* sidecar['enu_axes'] with east and north swapped; sidecar['origin'].
AxesSwap == [east |-> <<0, 1, 0>>, north |-> <<1, 0, 0>>, up |-> <<0, 0, 1>>]
NoAxes == [east |-> <<>>, north |-> <<>>, up |-> <<>>]
OriginPt == <<1, 0, -2>>

SeqsUpTo(S, n) == UNION {[1..k -> S] : k \in 0..n}

Boundaries == SeqsUpTo({PtFront, PtBehind, PtSide}, MaxBoundary)

\* A label of the sidecar's labels array; anchor Absent: no 'anchor_3d' key.
LabelKinds ==
    { [text |-> "", anchor |-> Absent],
      [text |-> "Main St", anchor |-> PtFront],
      [text |-> "Elm Rd", anchor |-> PtFar],
      [text |-> "Main St", anchor |-> Absent] }

LabelSeqs == SeqsUpTo(LabelKinds, MaxLabels)

MatrixPairs ==
    { [view |-> IdentityFlat, proj |-> PerspFlat],
      [view |-> Absent, proj |-> PerspFlat],
      [view |-> IdentityFlat, proj |-> Absent] }

\* enu_axes and origin of the sidecar: neither, the origin alone, both.
Frames ==
    { [enu_axes |-> NoAxes, origin |-> Absent],
      [enu_axes |-> NoAxes, origin |-> OriginPt],
      [enu_axes |-> AxesSwap, origin |-> OriginPt] }

\* metadata.acres: absent (the default 'N/A'), a float, an int.
AcresNA == [numeric |-> FALSE, str |-> "N/A", value |-> <<0, 1>>]
AcresNumber(v) == [numeric |-> TRUE, str |-> "", value |-> v]
AcresValues == {AcresNA, AcresNumber(<<617, 50>>), AcresNumber(<<5, 1>>)}

\* The boundary and the labels of the end-to-end scene.
SceneBoundary == <<PtFront, PtFront>>
SceneLabels == <<[text |-> "Main St", anchor |-> PtFront], [text |-> "Elm Rd", anchor |-> PtFar]>>

\* Every camera and frame, with every boundary under the labels of the scene
\* or none and with every labels array under the boundary of the scene; the
\* viewport of the image and no area value.
BaseSidecars ==
    { [view |-> m.view, proj |-> m.proj, enu_axes |-> f.enu_axes, origin |-> f.origin,
       boundary_3d |-> g[1], labels |-> g[2], acres |-> AcresNA,
       viewport |-> <<ImgSize, ImgSize>>] :
         m \in MatrixPairs, f \in Frames,
         g \in (Boundaries \X {<<>>, SceneLabels}) \cup ({SceneBoundary} \X LabelSeqs) }

\* The sidecar of the end-to-end scene: a boundary in front of the camera,
\* one label in view and one far off, the origin in view.
ReferenceSidecar ==
    [view |-> IdentityFlat, proj |-> PerspFlat, enu_axes |-> NoAxes, origin |-> OriginPt,
     boundary_3d |-> SceneBoundary,
     labels |-> SceneLabels,
     acres |-> AcresNA,
     viewport |-> <<ImgSize, ImgSize>>]

\* The scene with every labels array, area value and viewport.
VariantSidecars ==
    { [ReferenceSidecar EXCEPT !.labels = ls, !.acres = a, !.viewport = v] :
         ls \in LabelSeqs, a \in AcresValues, v \in Viewports }

Sidecars == BaseSidecars \cup VariantSidecars

\* Output paths as token sequences; every occurrence of ".psd" or ".png" in
\* the path string is a token of its own.
PathPsd == <<"out", ".psd">>
PathPng == <<"out", ".png">>
PathBare == <<"out">>
PathDir == <<"v1", ".psd", "/", "out", ".psd">>
OutputPaths == {PathPsd, PathPng, PathBare, PathDir}

Formats == {"png", "psd", "both"}
Stages == {1, 2}

Args == [output_path : OutputPaths, output_format : Formats, stage : Stages]

\* The usual calls: a path whose extension matches the format.
ReferenceArgs ==
    { a \in Args : \/ a.output_format = "png" /\ a.output_path = PathPng
                   \/ a.output_format = "psd" /\ a.output_path = PathPsd }

\* str.replace(old, new): every occurrence is replaced.
Replace(path, old, new) ==
    [i \in 1..Len(path) |-> IF path[i] = old THEN new ELSE path[i]]

RECURSIVE LastSlash(_, _)
LastSlash(path, i) ==
    IF i = 0 THEN 0 ELSE IF path[i] = "/" THEN i ELSE LastSlash(path, i - 1)

\* The directory part of a path (empty: the working directory).
DirOf(path) == SubSeq(path, 1, LastSlash(path, Len(path)) - 1)

AllPaths ==
    UNION { {p, Replace(p, ".psd", ".png"), Replace(p, ".png", ".psd")} :
              p \in OutputPaths }

-----------------------------------------------------------------------------
(* Surfaces and layers                                                     *)

\* What a draw function painted on its own transparent surface.
\*   draw: which function painted it;  src: index of the label in the
\*   sidecar's labels array (0 for the other overlays);  text: the text drawn;
\*   pts: the screen points the drawing was placed at.
Surface(draw, src, text, pts) == [draw |-> draw, src |-> src, text |-> text, pts |-> pts]

Ok(surface) == [tag |-> "ok", surface |-> surface]

Layer(name, surface, visible) == [name |-> name, surface |-> surface, visible |-> visible]

-----------------------------------------------------------------------------
(* compose.py: _build_enu_transform                                        *)

_build_enu_transform(sc) ==
    IF sc.enu_axes = NoAxes \/ sc.origin = Absent
    THEN Absent
    ELSE LET axes == sc.enu_axes
             origin == sc.origin
         IN  << <<axes.east[1], axes.north[1], axes.up[1], origin[1]>>,
                <<axes.east[2], axes.north[2], axes.up[2], origin[2]>>,
                <<axes.east[3], axes.north[3], axes.up[3], origin[3]>>,
                <<0, 0, 0, 1>> >>

-----------------------------------------------------------------------------
(* grid.py: _nice_round, compute_grid                                      *)

\* 10 ** exponent, for an exponent of either sign.
RECURSIVE Pow10(_)
Pow10(k) ==
    IF k = 0 THEN FInt(1)
    ELSE IF k > 0 THEN FMul(FInt(10), Pow10(k - 1))
    ELSE FDiv(Pow10(k + 1), FInt(10))

\* math.floor(math.log10(value)) for value > 0.
RECURSIVE FloorLog10(_)
FloorLog10(value) ==
    IF FLe(FInt(10), value) THEN FloorLog10(FDiv(value, FInt(10))) + 1
    ELSE IF FLt(value, FInt(1)) THEN FloorLog10(FMul(value, FInt(10))) - 1
    ELSE 0

\* A choice of the multiplier with the interval ends on the other side.
NiceOfOpen(fraction) ==
    IF FLt(fraction, <<3, 2>>) THEN 1
    ELSE IF FLt(fraction, <<7, 2>>) THEN 2
    ELSE IF FLt(fraction, <<15, 2>>) THEN 5
    ELSE 10

\* if fraction <= 1.5 ... elif fraction <= 3.5 ... elif fraction <= 7.5
NiceOf(fraction) ==
    IF FLe(fraction, <<3, 2>>) THEN 1
    ELSE IF FLe(fraction, <<7, 2>>) THEN 2
    ELSE IF FLe(fraction, <<15, 2>>) THEN 5
    ELSE 10

_nice_round(value) ==
    IF FLe(value, FInt(0))
    THEN FInt(10)
    ELSE LET exponent == FloorLog10(value)
             fraction == FDiv(value, Pow10(exponent))
         IN  FMul(FInt(NiceOf(fraction)), Pow10(exponent))

\* min and max of one column of the points array.
RECURSIVE ColMin(_, _)
ColMin(pts, c) ==
    IF Len(pts) = 1 THEN pts[1][c]
    ELSE LET m == ColMin(Tail(pts), c) IN IF pts[1][c] < m THEN pts[1][c] ELSE m

RECURSIVE ColMax(_, _)
ColMax(pts, c) ==
    IF Len(pts) = 1 THEN pts[1][c]
    ELSE LET m == ColMax(Tail(pts), c) IN IF pts[1][c] > m THEN pts[1][c] ELSE m

RECURSIVE ColSum(_, _)
ColSum(pts, c) == IF pts = <<>> THEN 0 ELSE pts[1][c] + ColSum(Tail(pts), c)

\* A loop that stops before the last line: while e < grid_max.
RECURSIVE GridStepsOpen(_, _, _)
GridStepsOpen(e, grid_max, cell_size) ==
    IF e < grid_max THEN <<e>> \o GridStepsOpen(e + cell_size, grid_max, cell_size)
    ELSE <<>>

\* A loop that emits every second line only.
RECURSIVE GridStepsSparse(_, _, _)
GridStepsSparse(e, grid_max, cell_size) ==
    IF e <= grid_max
    THEN <<e>> \o GridStepsSparse(e + 2 * cell_size, grid_max, cell_size)
    ELSE <<>>

\* while e <= grid_max: append e; e += cell_size
RECURSIVE GridSteps(_, _, _)
GridSteps(e, grid_max, cell_size) ==
    IF e <= grid_max THEN <<e>> \o GridSteps(e + cell_size, grid_max, cell_size)
    ELSE <<>>

ExtendFactor == 3
TargetCells == 15

\* cell_size = _nice_round(bbox_size / target_cells), at least 1.0
CellSize(bbox_size) ==
    LET c == _nice_round(FDiv(FInt(bbox_size), FInt(TargetCells)))
    IN  IF FLt(c, FInt(1)) THEN FInt(1) ELSE c

\* compute_grid(boundary_3d) with the default extend_factor and target_cells.
\* The coordinates are whole numbers; cell_size and the grid bounds are kept
\* as rationals and the line segments are pairs of (e, n, z) points.
compute_grid(boundary_3d) ==
    IF Len(boundary_3d) < 2
    THEN [ground_z |-> FInt(0), cell_size |-> FInt(10), east_lines |-> <<>>,
          north_lines |-> <<>>]
    ELSE LET e_min == ColMin(boundary_3d, 1)
             e_max == ColMax(boundary_3d, 1)
             n_min == ColMin(boundary_3d, 2)
             n_max == ColMax(boundary_3d, 2)
             ground_z == Frac(ColSum(boundary_3d, 3), Len(boundary_3d))
             bbox_size == IF e_max - e_min > n_max - n_min
                          THEN e_max - e_min ELSE n_max - n_min
             cell_size == CellSize(bbox_size)
             center_e == Frac(e_min + e_max, 2)
             center_n == Frac(n_min + n_max, 2)
             extent == Frac(bbox_size * ExtendFactor, 2)
             SnapDown(x) == FMul(FInt(FFloor(FDiv(x, cell_size))), cell_size)
             SnapUp(x) == FMul(FInt(FCeil(FDiv(x, cell_size))), cell_size)
             grid_e_min == SnapDown(FSub(center_e, extent))
             grid_e_max == SnapUp(FAdd(center_e, extent))
             grid_n_min == SnapDown(FSub(center_n, extent))
             grid_n_max == SnapUp(FAdd(center_n, extent))
             \* cell_size >= 1 is a whole number here (1, 2, 5 or 10 times a
             \* non-negative power of ten), and so are the snapped bounds.
             es == GridSteps(grid_e_min[1], grid_e_max[1], cell_size[1])
             ns == GridSteps(grid_n_min[1], grid_n_max[1], cell_size[1])
         IN  [ground_z |-> ground_z,
              cell_size |-> cell_size,
              east_lines |->
                  [i \in 1..Len(es) |->
                      << <<es[i], grid_n_min[1], ground_z>>,
                         <<es[i], grid_n_max[1], ground_z>> >>],
              north_lines |->
                  [i \in 1..Len(ns) |->
                      << <<grid_e_min[1], ns[i], ground_z>>,
                         <<grid_e_max[1], ns[i], ground_z>> >>]]

\* Bounded arguments of _nice_round: mantissa * 10^scale, zero included.
MaxMantissa == 1000
NiceScales == {-4, -3, -2, -1, 0, 1}
NiceValues == {FMul(FInt(n), Pow10(sc)) : n \in 0..MaxMantissa, sc \in NiceScales}

NiceInit ==
    /\ fn_in \in [tag : {"nice"}, value : NiceValues, again : {FALSE}]
    /\ fn_out = ProjIdle

\* One call of _nice_round.
NiceCall ==
    /\ fn_in.tag = "nice"
    /\ fn_out = ProjIdle
    /\ fn_out' = [tag |-> "nice", value |-> _nice_round(fn_in.value)]
    /\ UNCHANGED fn_in
    /\ UNCHANGED composeVars
    /\ UNCHANGED projVars

\* The result is passed to _nice_round again.
NiceAgain ==
    /\ fn_in.tag = "nice"
    /\ fn_out # ProjIdle
    /\ ~fn_in.again
    /\ fn_in' = [tag |-> "nice", value |-> fn_out.value, again |-> TRUE]
    /\ fn_out' = ProjIdle
    /\ UNCHANGED composeVars
    /\ UNCHANGED projVars

\* Bounded arguments of compute_grid.
MaxGridBoundary == 3
GridCoords == {-7, 0, 30, 113}
GridPoints == {<<e, n, z>> : e \in GridCoords, n \in GridCoords, z \in {0, 3}}

GridInit ==
    /\ fn_in \in [tag : {"grid"}, boundary_3d : SeqsUpTo(GridPoints, MaxGridBoundary)]
    /\ fn_out = ProjIdle

\* grid.py:129: grid = compute_grid(boundary_3d)
GridCall ==
    /\ fn_in.tag = "grid"
    /\ fn_out = ProjIdle
    /\ fn_out' = [tag |-> "grid", grid |-> compute_grid(fn_in.boundary_3d)]
    /\ UNCHANGED fn_in
    /\ UNCHANGED composeVars
    /\ UNCHANGED projVars

\* grid.py:130: all_lines = grid["east_lines"] + grid["north_lines"]
GridLines ==
    /\ fn_in.tag = "grid"
    /\ fn_out.tag = "grid"
    /\ fn_out' = [tag |-> "lines", grid |-> fn_out.grid,
                  all_lines |-> fn_out.grid.east_lines \o fn_out.grid.north_lines]
    /\ UNCHANGED fn_in
    /\ UNCHANGED composeVars
    /\ UNCHANGED projVars

-----------------------------------------------------------------------------
(* grid.py: draw_grid_layer                                                *)

\* compute_grid returns no lines for fewer than 2 boundary points, and at
\* least one line per axis otherwise.
GridHasLines(boundary_3d) == Len(boundary_3d) >= 2

draw_grid_layer_blank(width, height, boundary_3d, view_matrix, proj_matrix, enu_transform, viewport_w, viewport_h, fault) ==
    IF fault THEN Raise ELSE Ok(Surface("grid", 0, "", <<>>))

\* fault: the drawing backend raises while this surface is painted.
\* Every line endpoint is a well-formed 3-tuple, so projecting one raises
\* exactly when projecting a boundary point does.
draw_grid_layer(width, height, boundary_3d, view_matrix, proj_matrix, enu_transform, viewport_w, viewport_h, fault) ==
    IF fault
    THEN Raise
    ELSE IF GridHasLines(boundary_3d)
            /\ world_to_screen(boundary_3d[1], view_matrix, proj_matrix,
                               viewport_w, viewport_h, enu_transform).tag = "raise"
    THEN Raise
    ELSE Ok(Surface("grid", 0, "", <<>>))

-----------------------------------------------------------------------------
(* boundary.py: draw_boundary_layer                                        *)

\* The projections of the points, in order, without the rejected ones.
RECURSIVE ProjectKept(_, _, _, _, _, _)
ProjectKept(points_3d, view_matrix, proj_matrix, viewport_width, viewport_height, enu_transform) ==
    IF points_3d = <<>>
    THEN <<>>
    ELSE LET screen_p == world_to_screen(Head(points_3d), view_matrix, proj_matrix,
                                         viewport_width, viewport_height, enu_transform)
             rest == ProjectKept(Tail(points_3d), view_matrix, proj_matrix,
                                 viewport_width, viewport_height, enu_transform)
         IN  IF screen_p.tag = "pos"
             THEN <<<<screen_p.x, screen_p.y>>>> \o rest
             ELSE rest

AnyProjectionRaises(points_3d, view_matrix, proj_matrix, viewport_width, viewport_height, enu_transform) ==
    \E i \in 1..Len(points_3d) :
        world_to_screen(points_3d[i], view_matrix, proj_matrix,
                        viewport_width, viewport_height, enu_transform).tag = "raise"

\* A test that lets a single projected point through.
TooFewPointsOne(points_2d) == Len(points_2d) < 1

\* len(points_2d) < 2: too few projected points to draw.
TooFewPoints(points_2d) == Len(points_2d) < 2

draw_boundary_layer(width, height, points_3d, view_matrix, proj_matrix, viewport_width, viewport_height, enu_transform, fault) ==
    IF Len(points_3d) < 2
    THEN RetNone
    ELSE IF AnyProjectionRaises(points_3d, view_matrix, proj_matrix,
                                viewport_width, viewport_height, enu_transform)
    THEN Raise
    ELSE LET points_2d == ProjectKept(points_3d, view_matrix, proj_matrix,
                                      viewport_width, viewport_height, enu_transform)
         IN  IF TooFewPoints(points_2d)
             THEN RetNone
             ELSE IF fault
             THEN Raise
             ELSE Ok(Surface("boundary", 0, "", points_2d))

-----------------------------------------------------------------------------
(* labels.py                                                               *)

LabelMargin == 100

\* Skip if far outside viewport.
OutsideMargin(screen_x, screen_y, width, height) ==
    \/ FLt(screen_x, FInt(0 - LabelMargin))
    \/ FGt(screen_x, FInt(width + LabelMargin))
    \/ FLt(screen_y, FInt(0 - LabelMargin))
    \/ FGt(screen_y, FInt(height + LabelMargin))

draw_single_label(width, height, text, anchor_3d, view_matrix, proj_matrix, viewport_width, viewport_height, enu_transform, src, fault) ==
    LET pos == world_to_screen(anchor_3d, view_matrix, proj_matrix,
                               viewport_width, viewport_height, enu_transform)
    IN  IF pos.tag = "raise"
        THEN Raise
        ELSE IF pos.tag = "none"
        THEN RetNone
        ELSE IF OutsideMargin(pos.x, pos.y, width, height)
        THEN RetNone
        ELSE IF fault
        THEN Raise
        ELSE Ok(Surface("label", src, text, <<<<pos.x, pos.y>>>>))

\* The loop of draw_street_label_layers from label i on, with `results` so
\* far.  faultAt: the label during whose painting the drawing backend raises
\* (0: none).  The result keeps what had been collected when it raised.
RECURSIVE LabelLoop(_, _, _, _, _, _, _, _, _, _, _)
LabelLoop(i, results, width, height, labels, view_matrix, proj_matrix, viewport_width, viewport_height, enu_transform, faultAt) ==
    IF i > Len(labels)
    THEN [tag |-> "ok", results |-> results, at |-> 0]
    ELSE LET label == labels[i]
             text == label.text
         IN  IF text = ""
             THEN LabelLoop(i + 1, results, width, height, labels, view_matrix, proj_matrix,
                            viewport_width, viewport_height, enu_transform, faultAt)
             ELSE IF label.anchor = Absent
             THEN [tag |-> "raise", results |-> results, at |-> i]  \* KeyError
             ELSE LET surface == draw_single_label(width, height, text, label.anchor,
                                     view_matrix, proj_matrix, viewport_width,
                                     viewport_height, enu_transform, i, faultAt = i)
                  IN  IF surface.tag = "raise"
                      THEN [tag |-> "raise", results |-> results, at |-> i]
                      ELSE LabelLoop(i + 1,
                               IF surface.tag = "ok"
                               THEN Append(results, [text |-> text, surface |-> surface.surface])
                               ELSE results,
                               width, height, labels, view_matrix, proj_matrix,
                               viewport_width, viewport_height, enu_transform, faultAt)

draw_street_label_layers(width, height, labels, view_matrix, proj_matrix, viewport_width, viewport_height, enu_transform, faultAt) ==
    LabelLoop(1, <<>>, width, height, labels, view_matrix, proj_matrix,
              viewport_width, viewport_height, enu_transform, faultAt)

\* f"{acres:.1f}": one decimal place (the bounded values have no tie at the
\* second decimal).
Format1(v) ==
    LET tenths == (2 * 10 * v[1] + v[2]) \div (2 * v[2])
    IN  ToString(tenths \div 10) \o "." \o ToString(tenths % 10)

\* formatted_acres = f"{acres:.1f}" if isinstance(acres, (int, float))
\*                   else str(acres)
FormattedAcres(acres) == IF acres.numeric THEN Format1(acres.value) ELSE acres.str

\* text = f"{formatted_acres} ACRES"
AcresText(acres) == FormattedAcres(acres) \o " ACRES"

draw_acres_layer(width, height, centroid_3d, acres, view_matrix, proj_matrix, viewport_width, viewport_height, enu_transform, fault) ==
    LET text == AcresText(acres)
        pos == world_to_screen(centroid_3d, view_matrix, proj_matrix,
                               viewport_width, viewport_height, enu_transform)
    IN  IF pos.tag = "raise"
        THEN Raise
        ELSE IF pos.tag = "none"
        THEN RetNone
        ELSE IF fault
        THEN Raise
        ELSE Ok(Surface("acres", 0, text, <<<<pos.x, pos.y>>>>))

-----------------------------------------------------------------------------
(* The filesystem                                                          *)

NoFile == [type |-> "absent", complete |-> FALSE, own |-> FALSE, painted |-> <<>>, records |-> <<>>]

\* A flattened raster: the indices of the layers painted onto it, in order.
PngFile(painted) ==
    [type |-> "png", complete |-> TRUE, own |-> TRUE, painted |-> painted, records |-> <<>>]

\* A multi-layer document: its layer records; complete = FALSE when the
\* write stopped part-way.
PsdFile(records, complete) ==
    [type |-> "psd", complete |-> complete, own |-> TRUE, painted |-> <<>>, records |-> records]

\* A complete document left at the target path by an earlier run.
EarlierPsd ==
    [type |-> "psd", complete |-> TRUE, own |-> FALSE, painted |-> <<>>, records |-> <<>>]

Exists(path) == fs[path].type # "absent"

\* open(path, 'wb') and write_to_png need the directory to exist; the caller
\* created the directory of output_path and no other.
DirExists(path) == DirOf(path) = DirOf(args.output_path)

-----------------------------------------------------------------------------
(* psd_export.py: _cairo_surface_to_channels                               *)

\* A row cut as if the rows were tightly packed.
RowOfTight(arr, y, width, stride) ==
    LET row_start == y * width * 4
    IN  SubSeq(arr, row_start + 1, row_start + width * 4)

\* row_start = y * stride; arr[row_start:row_start + width * 4], y from 0.
RowOf(arr, y, width, stride) ==
    LET row_start == y * stride
    IN  SubSeq(arr, row_start + 1, row_start + width * 4)

\* pixels[:, :, c] with c from 0: an h-by-w plane, rows and columns from 1.
Plane(surface, c) ==
    [y \in 1..surface.height |->
        [x \in 1..surface.width |->
            RowOf(surface.data, y - 1, surface.width, surface.stride)[4 * (x - 1) + c + 1]]]

\* _cairo_surface_to_channels(surface): the tuple (r, g, b, a).
_cairo_surface_to_channels(surface) ==
    LET b_chan == Plane(surface, 0)
        g_chan == Plane(surface, 1)
        r_chan == Plane(surface, 2)
        a_chan == Plane(surface, 3)
    IN  <<r_chan, g_chan, b_chan, a_chan>>

\* Bounded rasters: width and height from 1 (a decoded background image is
\* never empty), a stride of 4 * width plus padding, and a buffer of
\* height * stride bytes filled by one of the patterns; pattern 1 gives
\* every offset its own byte.
MaxRaster == 3
StridePads == {0, 4, 8}
BytePatterns == {1, 7, 85, 255}
RasterData(height, stride, k) == [i \in 1..(height * stride) |-> ((i - 1) * k) % 256]
Rasters ==
    {[width |-> w, height |-> h, stride |-> 4 * w + pad,
      data |-> RasterData(h, 4 * w + pad, k)] :
        w \in 1..MaxRaster, h \in 1..MaxRaster, pad \in StridePads, k \in BytePatterns}

ChanInit ==
    /\ fn_in \in [tag : {"surface"}, surface : Rasters]
    /\ fn_out = ProjIdle

\* psd_export.py:61: r, g, b, a = _cairo_surface_to_channels(surface)
ChanCall ==
    /\ fn_in.tag = "surface"
    /\ fn_out = ProjIdle
    /\ fn_out' = [tag |-> "channels",
                  planes |-> _cairo_surface_to_channels(fn_in.surface)]
    /\ UNCHANGED fn_in
    /\ UNCHANGED composeVars
    /\ UNCHANGED projVars

\* psd_export.py:62-88: the layer record takes its size from the red plane
\* and its channels -1, 0, 1, 2 from the planes a, r, g, b.
ChanRecord ==
    /\ fn_in.tag = "surface"
    /\ fn_out.tag = "channels"
    /\ fn_out' = [tag |-> "record",
                  planes |-> fn_out.planes,
                  bottom |-> Len(fn_out.planes[1]),
                  right |-> Len(fn_out.planes[1][1]),
                  channels |-> <<fn_out.planes[4], fn_out.planes[1],
                                 fn_out.planes[2], fn_out.planes[3]>>]
    /\ UNCHANGED fn_in
    /\ UNCHANGED composeVars
    /\ UNCHANGED projVars

-----------------------------------------------------------------------------
(* compose.py: the output functions                                        *)

\* The indices of the layers _export_flat_png paints: the visible ones.
RECURSIVE VisibleFrom(_, _)
VisibleFrom(ls, i) ==
    IF i > Len(ls) THEN <<>>
    ELSE IF ls[i].visible THEN <<i>> \o VisibleFrom(ls, i + 1)
    ELSE VisibleFrom(ls, i + 1)

\* A flattening that ignores the visible flag.
PaintedAllLayers(ls) == [i \in 1..Len(ls) |-> i]

\* The layers the flat raster paints: those with visible = True, in order.
PaintedLayers(ls) == VisibleFrom(ls, 1)

\* _export_flat_png(layers, output_path); ioOk = FALSE: write_to_png raises
\* an IOError of the environment (disk full, permissions).
\* Result: the new filesystem, or the exception raised.
_export_flat_png(ls, output_path, ioOk) ==
    IF ls = <<>>
    THEN [tag |-> "ok", fs |-> fs, exc |-> "none"]
    ELSE IF ~DirExists(output_path)
    THEN [tag |-> "raise", fs |-> fs, exc |-> "FileNotFoundError"]
    ELSE IF ~ioOk
    THEN [tag |-> "raise", fs |-> fs, exc |-> "IOError"]
    ELSE [tag |-> "ok", fs |-> [fs EXCEPT ![output_path] = PngFile(PaintedLayers(ls))],
          exc |-> "none"]

\* A record whose opacity does not depend on the visible flag.
_make_layer_opaque(layer) ==
    [name |-> layer.name, visible |-> layer.visible, opacity |-> 255]

\* psd_export._make_layer: the record written for one layer.
_make_layer(layer) ==
    [name |-> layer.name, visible |-> layer.visible,
     opacity |-> IF layer.visible THEN 255 ELSE 128]

\* psd_export.export_psd(layer_defs, output_path).
\*   how = "ok"      the document is written;
\*         "before"  it raises before open() (no writer, a layer fails);
\*         "during"  it raises after open() while psd.write runs;
\*         "after"   it raises after the write.
\* Result: the new filesystem and whether it raised.
export_psd(layer_defs, output_path, how) ==
    LET records == [i \in 1..Len(layer_defs) |-> _make_layer(layer_defs[i])]
    IN  IF how = "before" \/ layer_defs = <<>> \/ ~DirExists(output_path)
        THEN [tag |-> "raise", fs |-> fs]
        ELSE IF how = "during"
        THEN [tag |-> "raise", fs |-> [fs EXCEPT ![output_path] = PsdFile(<<>>, FALSE)]]
        ELSE IF how = "after"
        THEN [tag |-> "raise", fs |-> [fs EXCEPT ![output_path] = PsdFile(records, TRUE)]]
        ELSE [tag |-> "ok", fs |-> [fs EXCEPT ![output_path] = PsdFile(records, TRUE)]]

ExportOutcomes == {"ok", "before", "during", "after"}

\* The path the flattened raster goes to (compose.py:182-183).
PngPath(a) ==
    IF a.output_format = "png" THEN a.output_path
    ELSE Replace(a.output_path, ".psd", ".png")

\* psd_path (compose.py:186-187).
PsdPath(a) ==
    IF a.output_format = "psd" THEN a.output_path
    ELSE Replace(a.output_path, ".png", ".psd")

\* The path of the fallback raster (compose.py:204).
FallbackPath(a) == Replace(a.output_path, ".psd", ".png")

-----------------------------------------------------------------------------
(* compose.py: compose_image                                               *)

\* A stage test that lets stage 1 build text layers too.
TextStageAlways(stage) == stage >= 1

\* if stage >= 2: the text layers are built.
TextStage(stage) == stage >= 2

\* Where the run goes once the layers are built.
OutputPc(a) == IF a.output_format \in {"png", "both"} THEN "png" ELSE "psd"

\* sidecar.get('origin', {'x': 0, 'y': 0, 'z': 0}) as a list.
Centroid(sc) == IF sc.origin = Absent THEN <<0, 0, 0>> ELSE sc.origin

\* The name of the area-text layer (compose.py:172).
AcresLayerName(acres) ==
    IF acres.numeric THEN Format1(acres.value) \o " ACRES" ELSE acres.str

\* A centroid passed through the frame of the sidecar.
AcresFrameBuilt(sc) == _build_enu_transform(sc)

\* The frame draw_acres_layer is given: None (compose.py:168).
AcresFrame(sc) == Absent

\* The earlier document, if any, lies at the path the document is written to.
InitFs(a) ==
    { [p \in AllPaths |-> IF p = PsdPath(a) /\ a.output_format # "png" THEN f ELSE NoFile] :
        f \in {NoFile, EarlierPsd} }

\* Every sidecar under the usual calls on an empty directory, and every
\* call and directory state on the reference sidecar.
ComposeInit ==
    /\ pc = "start"
    /\ args \in Args
    /\ sidecar \in Sidecars
    /\ fs \in InitFs(args)
    /\ \/ sidecar = ReferenceSidecar
       \/ args \in ReferenceArgs /\ fs = [p \in AllPaths |-> NoFile]
    /\ layers = <<>>
    /\ exc = "none"
    /\ warned = {}
    /\ drawn = {}
    /\ threw = {}

\* compose.py:54-91: the sidecar and the background are loaded and the
\* background becomes layer 0.
LoadInputs ==
    /\ pc = "start"
    /\ layers' = <<Layer("Background", Surface("background", 0, "", <<>>), TRUE)>>
    /\ pc' = "grid"
    /\ UNCHANGED <<args, sidecar, fs, exc, warned, drawn, threw>>
    /\ UNCHANGED pureVars

\* compose.py:55-56, 78: the sidecar cannot be opened or parsed, or the
\* background cannot be read; the exception leaves compose_image.
LoadFails ==
    /\ pc = "start"
    /\ pc' = "raised"
    /\ exc' = "input"
    /\ UNCHANGED <<args, sidecar, layers, fs, warned, drawn, threw>>
    /\ UNCHANGED pureVars

\* compose.py:94-107
DrawGrid ==
    /\ pc = "grid"
    /\ \E fault \in BOOLEAN :
         LET r == draw_grid_layer(ImgSize, ImgSize, sidecar.boundary_3d,
                                  sidecar.view, sidecar.proj, _build_enu_transform(sidecar),
                                  sidecar.viewport[1], sidecar.viewport[2], fault)
         IN  IF r.tag = "raise"
             THEN /\ warned' = warned \cup {"grid"}
                  /\ threw' = threw \cup {<<"grid", 0>>}
                  /\ UNCHANGED <<layers, drawn>>
             ELSE /\ layers' = Append(layers, Layer("Grid (Reference)", r.surface, FALSE))
                  /\ drawn' = drawn \cup {<<"grid", 0>>}
                  /\ UNCHANGED <<warned, threw>>
    /\ pc' = "boundary"
    /\ UNCHANGED <<args, sidecar, fs, exc>>
    /\ UNCHANGED pureVars

\* compose.py:110-128
DrawBoundary ==
    /\ pc = "boundary"
    /\ \E fault \in BOOLEAN :
         LET r == draw_boundary_layer(ImgSize, ImgSize, sidecar.boundary_3d,
                                      sidecar.view, sidecar.proj,
                                      sidecar.viewport[1], sidecar.viewport[2],
                                      _build_enu_transform(sidecar), fault)
         IN  IF r.tag = "raise"
             THEN /\ warned' = warned \cup {"boundary"}
                  /\ threw' = threw \cup {<<"boundary", 0>>}
                  /\ UNCHANGED <<layers, drawn>>
             ELSE IF r.tag = "ok"
             THEN /\ layers' = Append(layers, Layer("Boundary", r.surface, TRUE))
                  /\ drawn' = drawn \cup {<<"boundary", 0>>}
                  /\ UNCHANGED <<warned, threw>>
             ELSE UNCHANGED <<layers, warned, drawn, threw>>
    /\ pc' = IF TextStage(args.stage) THEN "labels" ELSE OutputPc(args)
    /\ UNCHANGED <<args, sidecar, fs, exc>>
    /\ UNCHANGED pureVars

LabelLayersReversed(results) ==
    [j \in 1..Len(results) |->
        Layer("Label: " \o results[Len(results) + 1 - j].text,
              results[Len(results) + 1 - j].surface, TRUE)]

\* The layers appended for the label results (compose.py:144-149).
LabelLayers(results) ==
    [j \in 1..Len(results) |->
        Layer("Label: " \o results[j].text, results[j].surface, TRUE)]

\* compose.py:131-151
DrawLabels ==
    /\ pc = "labels"
    /\ \E faultAt \in 0..Len(sidecar.labels) :
         LET r == draw_street_label_layers(ImgSize, ImgSize, sidecar.labels,
                                           sidecar.view, sidecar.proj,
                                           sidecar.viewport[1], sidecar.viewport[2],
                                           _build_enu_transform(sidecar), faultAt)
             done == {<<"label", r.results[j].surface.src>> : j \in 1..Len(r.results)}
         IN  /\ drawn' = drawn \cup done
             /\ IF r.tag = "raise"
                THEN /\ warned' = warned \cup {"labels"}
                     /\ threw' = threw \cup {<<"label", r.at>>}
                     /\ UNCHANGED layers
                ELSE /\ layers' = layers \o LabelLayers(r.results)
                     /\ UNCHANGED <<warned, threw>>
    /\ pc' = "acres"
    /\ UNCHANGED <<args, sidecar, fs, exc>>
    /\ UNCHANGED pureVars

\* compose.py:154-177
DrawAcres ==
    /\ pc = "acres"
    /\ \E fault \in BOOLEAN :
         LET r == draw_acres_layer(ImgSize, ImgSize, Centroid(sidecar), sidecar.acres,
                                   sidecar.view, sidecar.proj,
                                   sidecar.viewport[1], sidecar.viewport[2],
                                   AcresFrame(sidecar), fault)
         IN  IF r.tag = "raise"
             THEN /\ warned' = warned \cup {"acres"}
                  /\ threw' = threw \cup {<<"acres", 0>>}
                  /\ UNCHANGED <<layers, drawn>>
             ELSE IF r.tag = "ok"
             THEN /\ layers' = Append(layers, Layer(AcresLayerName(sidecar.acres), r.surface, TRUE))
                  /\ drawn' = drawn \cup {<<"acres", 0>>}
                  /\ UNCHANGED <<warned, threw>>
             ELSE UNCHANGED <<layers, warned, drawn, threw>>
    /\ pc' = OutputPc(args)
    /\ UNCHANGED <<args, sidecar, fs, exc>>
    /\ UNCHANGED pureVars

\* compose.py:181-183: the flattened raster; an exception of the write
\* leaves compose_image.
ExportPng ==
    /\ pc = "png"
    /\ \E ioOk \in BOOLEAN :
         LET r == _export_flat_png(layers, PngPath(args), ioOk)
         IN  IF r.tag = "raise"
             THEN /\ pc' = "raised"
                  /\ exc' = r.exc
                  /\ UNCHANGED fs
             ELSE /\ fs' = r.fs
                  /\ pc' = IF args.output_format = "both" THEN "psd" ELSE "done"
                  /\ UNCHANGED exc
    /\ UNCHANGED <<args, sidecar, layers, warned, drawn, threw>>
    /\ UNCHANGED pureVars

\* compose.py:185-193: export_psd inside the try block.
ExportPsd ==
    /\ pc = "psd"
    /\ \E how \in ExportOutcomes :
         LET r == export_psd(layers, PsdPath(args), how)
         IN  /\ fs' = r.fs
             /\ IF r.tag = "raise"
                THEN /\ warned' = warned \cup {"psd"}
                     /\ pc' = "cleanup"
                ELSE /\ pc' = "done"
                     /\ UNCHANGED warned
    /\ UNCHANGED <<args, sidecar, layers, exc, drawn, threw>>
    /\ UNCHANGED pureVars

\* compose.py:196-201: the partial document is removed; an OSError of
\* os.remove is caught and reported.
Cleanup ==
    /\ pc = "cleanup"
    /\ IF Exists(PsdPath(args))
       THEN \E removed \in BOOLEAN :
              IF removed
              THEN /\ fs' = [fs EXCEPT ![PsdPath(args)] = NoFile]
                   /\ UNCHANGED warned
              ELSE /\ warned' = warned \cup {"cleanup"}
                   /\ UNCHANGED fs
       ELSE UNCHANGED <<fs, warned>>
    /\ pc' = "fallback"
    /\ UNCHANGED <<args, sidecar, layers, exc, drawn, threw>>
    /\ UNCHANGED pureVars

\* compose.py:204: the fallback raster, written inside the except block.
Fallback ==
    /\ pc = "fallback"
    /\ \E ioOk \in BOOLEAN :
         LET r == _export_flat_png(layers, FallbackPath(args), ioOk)
         IN  IF r.tag = "raise"
             THEN /\ pc' = "raised"
                  /\ exc' = r.exc
                  /\ UNCHANGED fs
             ELSE /\ fs' = r.fs
                  /\ pc' = "done"
                  /\ UNCHANGED exc
    /\ UNCHANGED <<args, sidecar, layers, warned, drawn, threw>>
    /\ UNCHANGED pureVars

Next ==
    \/ LoadInputs
    \/ LoadFails
    \/ DrawGrid
    \/ DrawBoundary
    \/ DrawLabels
    \/ DrawAcres
    \/ ExportPng
    \/ ExportPsd
    \/ Cleanup
    \/ Fallback

-----------------------------------------------------------------------------
(* Specifications                                                          *)

\* compose_image runs; no projection call of its own is tracked.
Init ==
    /\ ComposeInit
    /\ pj_in = ProjIdle
    /\ pj_out = ProjIdle
    /\ fn_in = ProjIdle
    /\ fn_out = ProjIdle

Spec == Init /\ [][Next]_vars

\* No compose_image run: the state of compose_image stays idle.
ComposeIdle ==
    /\ pc = "idle"
    /\ args = [output_path |-> PathPng, output_format |-> "png", stage |-> 1]
    /\ sidecar = ProjIdle
    /\ layers = <<>>
    /\ fs = [p \in AllPaths |-> NoFile]
    /\ exc = "none"
    /\ warned = {}
    /\ drawn = {}
    /\ threw = {}

\* world_to_screen alone.
InitProj ==
    /\ ProjInit
    /\ fn_in = ProjIdle
    /\ fn_out = ProjIdle
    /\ pc = "idle"
    /\ args = [output_path |-> PathPng, output_format |-> "png", stage |-> 1]
    /\ sidecar = ProjIdle
    /\ layers = <<>>
    /\ fs = [p \in AllPaths |-> NoFile]
    /\ exc = "none"
    /\ warned = {}
    /\ drawn = {}
    /\ threw = {}

NextProj ==
    \/ ProjCall
    \/ ProjNextPoint

SpecProj == InitProj /\ [][NextProj]_vars

\* _nice_round alone.
InitNice ==
    /\ NiceInit
    /\ ComposeIdle
    /\ pj_in = ProjIdle
    /\ pj_out = ProjIdle

NextNice ==
    \/ NiceCall
    \/ NiceAgain

SpecNice == InitNice /\ [][NextNice]_vars

\* compute_grid alone.
InitGrid ==
    /\ GridInit
    /\ ComposeIdle
    /\ pj_in = ProjIdle
    /\ pj_out = ProjIdle

NextGrid ==
    \/ GridCall
    \/ GridLines

SpecGrid == InitGrid /\ [][NextGrid]_vars

\* _cairo_surface_to_channels alone.
InitChan ==
    /\ ChanInit
    /\ ComposeIdle
    /\ pj_in = ProjIdle
    /\ pj_out = ProjIdle

NextChan ==
    \/ ChanCall
    \/ ChanRecord

SpecChan == InitChan /\ [][NextChan]_vars

-----------------------------------------------------------------------------
(* Properties                                                              *)

\* The layers are built: the run is past the loading of its inputs.
Built == layers # <<>>

\* The run has ended, normally or by an exception.
Terminal == pc \in {"done", "raised"}

\* The overlay a layer holds.
Overlay(layer) == <<layer.surface.draw, layer.surface.src>>

StackOverlays == {Overlay(layers[i]) : i \in 1..Len(layers)}

StackDraws == [i \in 1..Len(layers) |-> layers[i].surface.draw]

-----------------------------------------------------------------------------
(* The reference projection of C10: the product matrix P * V * T applied   *)
(* to the homogeneous point, entry (r, c) of a column-major list being     *)
(* element 4 * (c - 1) + r.                                                *)

ColMajor(flat) == [r \in 1..4 |-> [c \in 1..4 |-> flat[4 * (c - 1) + r]]]

MatMul(a, b) ==
    [r \in 1..4 |-> [c \in 1..4 |->
        a[r][1] * b[1][c] + a[r][2] * b[2][c] + a[r][3] * b[3][c] + a[r][4] * b[4][c]]]

RefClip(in) ==
    LET pv == MatMul(ColMajor(in.proj), ColMajor(in.view))
        pvt == IF in.frame = Absent THEN pv ELSE MatMul(pv, in.frame)
    IN  MatVec(pvt, <<in.point[1], in.point[2], in.point[3], 1>>)

\* C10: for every well-formed point, world_to_screen does not raise; it
\* returns the rejection value exactly when the reference clip.w <= 0, and
\* otherwise the point ((ndc_x + 1) / 2 * width, (1 - ndc_y) / 2 * height);
\* NDC x = -1 maps to 0, x = +1 to width, y = +1 to 0 and y = -1 to height.
C10_ProjectionMatchesReference ==
    (pj_out # ProjIdle /\ Len(pj_in.point) = 3) =>
        LET clip == RefClip(pj_in)
            w == clip[4]
            width == pj_in.viewport[1]
            height == pj_in.viewport[2]
        IN  /\ pj_out.tag # "raise"
            /\ (pj_out.tag = "none") <=> (w <= 0)
            /\ w > 0 =>
                 /\ pj_out.tag = "pos"
                 /\ pj_out.x = Frac((clip[1] + w) * width, 2 * w)
                 /\ pj_out.y = Frac((w - clip[2]) * height, 2 * w)
                 /\ clip[1] = 0 - w => pj_out.x = FInt(0)
                 /\ clip[1] = w => pj_out.x = FInt(width)
                 /\ clip[2] = w => pj_out.y = FInt(0)
                 /\ clip[2] = 0 - w => pj_out.y = FInt(height)

\* C10 witness: a framed point that projects onto the top left corner of
\* the viewport (NDC x = -1, y = +1).
C10_Witness ==
    /\ pj_out # ProjIdle
    /\ pj_in.frame # Absent
    /\ pj_out.tag = "pos"
    /\ pj_out.x = FInt(0)
    /\ pj_out.y = FInt(0)

-----------------------------------------------------------------------------
(* compose_image: the layer stack                                          *)

\* The layer-building steps are over.
LayersDone == Built /\ pc \in {"png", "psd", "cleanup", "fallback", "done", "raised"}

\* A projection result that lies on the image.
OnScreen(r) ==
    /\ r.tag = "pos"
    /\ ~FLt(r.x, FInt(0)) /\ ~FGt(r.x, FInt(ImgSize))
    /\ ~FLt(r.y, FInt(0)) /\ ~FGt(r.y, FInt(ImgSize))

\* The projection compose_image uses for boundary points and label anchors
\* (through the frame transform) and for the centroid (without it).
FramedProjection(point) ==
    world_to_screen(point, sidecar.view, sidecar.proj,
                    sidecar.viewport[1], sidecar.viewport[2],
                    _build_enu_transform(sidecar))

CentroidProjection ==
    world_to_screen(Centroid(sidecar), sidecar.view, sidecar.proj,
                    sidecar.viewport[1], sidecar.viewport[2], Absent)

MatricesMissing == sidecar.view = Absent \/ sidecar.proj = Absent

\* C3: when exactly one overlay's rendering raised, the stack still holds
\* the background and every overlay whose rendering returned a surface.
C3_OneFailureKeepsTheOthers ==
    (LayersDone /\ Cardinality(threw) = 1) =>
        /\ <<"background", 0>> \in StackOverlays
        /\ \A o \in drawn : o \in StackOverlays

\* C4: with stage = 1 the stack holds only structural layers (background,
\* grid, boundary): no street-label layer and no area-text layer.
C4_Stage1Structural ==
    args.stage = 1 =>
        \A i \in 1..Len(layers) : StackDraws[i] \in {"background", "grid", "boundary"}

\* C4 witness: a finished stage-1 run on the reference sidecar, which has
\* an on-screen label and an on-screen centroid.
C4_Witness ==
    /\ pc = "done"
    /\ args.stage = 1
    /\ sidecar = ReferenceSidecar
    /\ StackDraws = <<"background", "grid", "boundary">>

\* C5: with stage = 2 the stack holds a label layer for every label with
\* non-empty text whose anchor projects on-screen, and the area-text layer
\* whenever the centroid projects on-screen (stated for the overlays whose
\* own rendering did not raise).
C5_Stage2TextLayers ==
    (LayersDone /\ args.stage = 2) =>
        /\ \A i \in 1..Len(sidecar.labels) :
             ( /\ sidecar.labels[i].text # ""
               /\ OnScreen(FramedProjection(sidecar.labels[i].anchor))
               /\ <<"label", i>> \notin threw )
             => <<"label", i>> \in StackOverlays
        /\ (OnScreen(CentroidProjection) /\ <<"acres", 0>> \notin threw)
             => <<"acres", 0>> \in StackOverlays

Rank(draw) ==
    CASE draw = "background" -> 0
      [] draw = "grid" -> 1
      [] draw = "boundary" -> 2
      [] draw = "label" -> 3
      [] draw = "acres" -> 4

\* C6: in every layer stack, index 0 is the visible background and the
\* other layers follow in the order grid (hidden), boundary, labels in the
\* order of the sidecar's labels array, area text; when every boundary point
\* projects on-screen and no rendering raised, the stage-1 stack is exactly
\* background, grid, boundary.
C6_StackOrder ==
    Built =>
        /\ Overlay(layers[1]) = <<"background", 0>>
        /\ layers[1].name = "Background"
        /\ layers[1].visible
        /\ \A i, j \in 1..Len(layers) :
             i < j =>
               \/ Rank(StackDraws[i]) < Rank(StackDraws[j])
               \/ /\ StackDraws[i] = "label"
                  /\ StackDraws[j] = "label"
                  /\ layers[i].surface.src < layers[j].surface.src
        /\ \A i \in 1..Len(layers) : StackDraws[i] = "grid" => ~layers[i].visible
        /\ ( /\ LayersDone
             /\ args.stage = 1
             /\ threw = {}
             /\ Len(sidecar.boundary_3d) >= 2
             /\ \A k \in 1..Len(sidecar.boundary_3d) :
                    OnScreen(FramedProjection(sidecar.boundary_3d[k])) )
           => StackDraws = <<"background", "grid", "boundary">>

\* C6 witness: a finished run whose stack holds every kind of layer and two
\* label layers.
C6_Witness ==
    /\ pc = "done"
    /\ StackDraws = <<"background", "grid", "boundary", "label", "label", "acres">>

-----------------------------------------------------------------------------
(* compose_image: the output files                                         *)

\* C1: for format 'psd', when export_psd failed, compose_image returns
\* normally, the target document path does not exist and a flattened raster
\* exists at the path with the raster extension substituted (stated for the
\* runs in which neither os.remove nor the raster write is failed by the
\* environment).
C1_FallbackDelivers ==
    ( /\ Terminal
      /\ args.output_format = "psd"
      /\ "psd" \in warned
      /\ "cleanup" \notin warned
      /\ exc # "IOError" )
    => /\ pc = "done"
       /\ ~Exists(args.output_path)
       /\ fs[FallbackPath(args)].type = "png"

\* C2: in every terminal state no partially written document lies at any
\* path: the document is completely written or absent.
C2_NoPartialDocument ==
    Terminal => \A p \in AllPaths : ~(fs[p].type = "psd" /\ ~fs[p].complete)

\* C7: every flattened raster holds exactly the visible layers of the
\* stack, painted in stack order; no hidden layer and never the grid.
C7_FlatPaintsVisibleOnly ==
    \A p \in AllPaths :
        fs[p].type = "png" =>
            LET painted == fs[p].painted
            IN  /\ \A k \in 1..Len(painted) :
                     /\ painted[k] \in 1..Len(layers)
                     /\ layers[painted[k]].visible
                     /\ StackDraws[painted[k]] # "grid"
                /\ \A i \in 1..Len(layers) :
                     layers[i].visible => \E k \in 1..Len(painted) : painted[k] = i
                /\ \A k1, k2 \in 1..Len(painted) : k1 < k2 => painted[k1] < painted[k2]

\* C7 witness: the fallback raster written after a failed document export,
\* from a stack that holds the grid and at least two visible layers.
C7_Witness ==
    /\ pc = "done"
    /\ "psd" \in warned
    /\ <<"grid", 0>> \in StackOverlays
    /\ fs[FallbackPath(args)].type = "png"
    /\ Len(fs[FallbackPath(args)].painted) >= 2

\* Some file written by this run lies in the directory.
OutputWritten == \E p \in AllPaths : fs[p].own /\ fs[p].type # "absent"

\* C8 as stated: a sidecar that lacks the view or projection matrix aborts
\* the run with an input error before any layer is built and before any
\* output is written.
C8_MissingMatricesAbort ==
    MatricesMissing =>
        /\ layers = <<>>
        /\ ~OutputWritten
        /\ pc # "start" => (pc = "raised" /\ exc = "input")

\* C8 amended: a sidecar that lacks the view or projection matrix does not
\* abort the run; every overlay that projects a point raises inside its
\* try block and is omitted, so the stack holds the background and at most
\* the grid (only for a boundary of fewer than 2 points, which has no lines
\* to project), and a run that completes has written its output.
C8_MissingMatricesDegrade ==
    (MatricesMissing /\ Built) =>
        /\ exc # "input"
        /\ \A i \in 1..Len(layers) : StackDraws[i] \in {"background", "grid"}
        /\ <<"grid", 0>> \in StackOverlays => Len(sidecar.boundary_3d) < 2
        /\ \A o \in drawn : o = <<"grid", 0>>
        /\ pc = "done" => OutputWritten

\* C8 witness: a completed stage-2 run on a sidecar without projection
\* matrix, with a boundary and labels, that wrote the raster of the
\* background alone.
C8_Witness ==
    /\ pc = "done"
    /\ sidecar.proj = Absent
    /\ args.stage = 2
    /\ Len(sidecar.boundary_3d) >= 2
    /\ Len(sidecar.labels) >= 1
    /\ StackDraws = <<"background">>
    /\ args.output_format = "png"
    /\ fs[PngPath(args)].painted = <<1>>

\* C9: only input errors make compose_image terminate abnormally; a failure
\* in a layer's rendering or in writing an output never does.
C9_OnlyInputErrorsAbort ==
    pc = "raised" => exc = "input"

-----------------------------------------------------------------------------
(* grid.py properties                                                      *)

\* Exponents that cover every bounded argument and result of _nice_round.
NiceExps == {-4, -3, -2, -1, 0, 1, 2, 3, 4}

\* The decade of v: the k with 10^k <= v < 10^(k+1).
Decade(v) == CHOOSE k \in NiceExps : FLe(Pow10(k), v) /\ FLt(v, Pow10(k + 1))

NiceForm(out) ==
    \E m \in {1, 2, 5, 10} : \E k \in NiceExps : out = FMul(FInt(m), Pow10(k))

AxisVals(b, c) == {b[i][c] : i \in 1..Len(b)}
AxisMin(b, c) == CHOOSE x \in AxisVals(b, c) : \A y \in AxisVals(b, c) : x <= y
AxisMax(b, c) == CHOOSE x \in AxisVals(b, c) : \A y \in AxisVals(b, c) : x >= y
BboxSize(b) ==
    LET w == AxisMax(b, 1) - AxisMin(b, 1)
        h == AxisMax(b, 2) - AxisMin(b, 2)
    IN  IF w > h THEN w ELSE h

\* center - extent and center + extent on axis c.
ExtLow(b, c) == FSub(Frac(AxisMin(b, c) + AxisMax(b, c), 2), Frac(BboxSize(b) * 3, 2))
ExtHigh(b, c) == FAdd(Frac(AxisMin(b, c) + AxisMax(b, c), 2), Frac(BboxSize(b) * 3, 2))

\* x is a whole multiple of the cell size cs.
MultipleOf(x, cs) == FDiv(FInt(x), cs)[2] = 1

\* The lines that step along axis c (1: east_lines, 2: north_lines) lie on
\* lo..hi of that axis and span olo..ohi of the other axis at height gz.
AxisLinesOk(lines, c, lo, hi, olo, ohi, gz) ==
    /\ Len(lines) >= 1
    /\ lines[1][1][c] = lo
    /\ lines[Len(lines)][1][c] = hi
    /\ \A i \in 1..Len(lines) :
          /\ Len(lines[i]) = 2
          /\ lines[i][1][c] = lines[i][2][c]
          /\ lines[i][1][3 - c] = olo
          /\ lines[i][2][3 - c] = ohi
          /\ lines[i][1][3] = gz
          /\ lines[i][2][3] = gz

\* C12: for a boundary of at least 2 points compute_grid returns cell_size >= 1
\* and, on both axes, grid bounds that are whole multiples of cell_size and
\* contain center - extent and center + extent (extent = bboxSize * 3 / 2);
\* the first and the last line of each axis lie on grid_min and grid_max and
\* every segment spans the whole range of the other axis at ground_z.
C12_GridContainsExtendedBbox ==
    (fn_in.tag = "grid" /\ fn_out.tag = "grid" /\ Len(fn_in.boundary_3d) >= 2) =>
        LET b == fn_in.boundary_3d
            g == fn_out.grid
            cs == g.cell_size
            gz == Frac(ColSum(b, 3), Len(b))
        IN  /\ FLe(FInt(1), cs)
            /\ g.ground_z = gz
            /\ Len(g.east_lines) >= 1
            /\ Len(g.north_lines) >= 1
            /\ LET e_lo == g.north_lines[1][1][1]
                    e_hi == g.north_lines[1][2][1]
                    n_lo == g.east_lines[1][1][2]
                    n_hi == g.east_lines[1][2][2]
                IN  /\ MultipleOf(e_lo, cs) /\ MultipleOf(e_hi, cs)
                    /\ MultipleOf(n_lo, cs) /\ MultipleOf(n_hi, cs)
                    /\ FLe(FInt(e_lo), ExtLow(b, 1)) /\ FLe(ExtHigh(b, 1), FInt(e_hi))
                    /\ FLe(FInt(n_lo), ExtLow(b, 2)) /\ FLe(ExtHigh(b, 2), FInt(n_hi))
                    /\ AxisLinesOk(g.east_lines, 1, e_lo, e_hi, n_lo, n_hi, gz)
                    /\ AxisLinesOk(g.north_lines, 2, n_lo, n_hi, e_lo, e_hi, gz)

\* A 113 x 30 boundary at mixed heights: cell_size 10, grid from -120 to 230
\* east and -160 to 190 north.
C12_Witness ==
    /\ fn_in.tag = "grid"
    /\ fn_in.boundary_3d = <<<<0, 0, 0>>, <<113, 30, 3>>>>
    /\ fn_out.tag = "grid"
    /\ fn_out.grid.cell_size = FInt(10)
    /\ Len(fn_out.grid.east_lines) = 36
    /\ Len(fn_out.grid.north_lines) = 36

\* Some line of the axis lies strictly between the boundary's min and max.
LineInside(lines, b, c) ==
    \E i \in 1..Len(lines) :
        AxisMin(b, c) < lines[i][1][c] /\ lines[i][1][c] < AxisMax(b, c)

\* C13 as stated: for a boundary of at least 2 points no grid line lies
\* strictly inside the un-extended bounding box of the boundary.
C13_NoLineInsideBbox ==
    (fn_in.tag = "grid" /\ fn_out.tag = "grid" /\ Len(fn_in.boundary_3d) >= 2) =>
        /\ ~LineInside(fn_out.grid.east_lines, fn_in.boundary_3d, 1)
        /\ ~LineInside(fn_out.grid.north_lines, fn_in.boundary_3d, 2)

\* Consecutive lines of an axis are exactly one cell apart.
EvenlySpaced(lines, c, cs) ==
    \A i \in 1..(Len(lines) - 1) : FInt(lines[i + 1][1][c] - lines[i][1][c]) = cs

\* C13: for a boundary of at least 2 points the grid lines of each axis lie
\* on every multiple of cell_size from grid_min to grid_max, one cell apart,
\* the un-extended bounding box included: an axis on which the bounding box
\* is wider than cell_size has a line strictly inside the box.
C13_LinesCrossBbox ==
    (fn_in.tag = "grid" /\ fn_out.tag = "grid" /\ Len(fn_in.boundary_3d) >= 2) =>
        LET b == fn_in.boundary_3d
            g == fn_out.grid
        IN  /\ EvenlySpaced(g.east_lines, 1, g.cell_size)
            /\ EvenlySpaced(g.north_lines, 2, g.cell_size)
            /\ FLt(g.cell_size, FInt(AxisMax(b, 1) - AxisMin(b, 1)))
                  => LineInside(g.east_lines, b, 1)
            /\ FLt(g.cell_size, FInt(AxisMax(b, 2) - AxisMin(b, 2)))
                  => LineInside(g.north_lines, b, 2)

\* A 30 x 30 boundary: cell_size 2 and a line at east = 2, inside 0..30.
C13_Witness ==
    /\ fn_in.tag = "grid"
    /\ fn_in.boundary_3d = <<<<0, 0, 0>>, <<30, 30, 0>>>>
    /\ fn_out.tag = "grid"
    /\ fn_out.grid.cell_size = FInt(2)
    /\ \E i \in 1..Len(fn_out.grid.east_lines) : fn_out.grid.east_lines[i][1][1] = 2

-----------------------------------------------------------------------------
(* psd_export.py properties                                                *)

\* The documents this run wrote completely.
WrittenDocuments == {p \in AllPaths : fs[p].type = "psd" /\ fs[p].own /\ fs[p].complete}

\* C14: export_psd writes one layer record per layer of the stack, hidden
\* layers included, in the order of the stack; the visible flag of a record
\* is the layer's, and its opacity is 255 for a visible layer and 128 for a
\* hidden one.
C14_RecordsMirrorStack ==
    \A p \in WrittenDocuments :
        LET records == fs[p].records
        IN  /\ Len(records) = Len(layers)
            /\ \A i \in 1..Len(layers) :
                  /\ records[i].name = layers[i].name
                  /\ records[i].visible = layers[i].visible
                  /\ layers[i].visible => records[i].opacity = 255
                  /\ ~layers[i].visible => records[i].opacity = 128

\* A finished document of a stack with the hidden grid and a visible
\* boundary above it.
C14_Witness ==
    /\ pc = "done"
    /\ PsdPath(args) \in WrittenDocuments
    /\ Len(fs[PsdPath(args)].records) >= 3
    /\ ~fs[PsdPath(args)].records[2].visible
    /\ fs[PsdPath(args)].records[2].opacity = 128
    /\ fs[PsdPath(args)].records[3].visible

\* The buffer byte at a 0-based offset.
ByteAt(surface, offset) == surface.data[offset + 1]

\* C15: for a raster of width w, height h and stride s >= 4 * w the four
\* planes are h by w and at every pixel (x, y) the B, G, R, A planes hold the
\* buffer bytes at the offsets y*s + 4*x + 0, 1, 2, 3; the bytes between
\* 4 * w and s of a row appear in no plane.
C15_PlanesFollowStride ==
    (fn_in.tag = "surface" /\ fn_out.tag = "channels") =>
        LET sf == fn_in.surface
            r == fn_out.planes[1]
            g == fn_out.planes[2]
            b == fn_out.planes[3]
            a == fn_out.planes[4]
        IN  /\ \A pl \in {r, g, b, a} :
                  /\ Len(pl) = sf.height
                  /\ \A y \in 1..sf.height : Len(pl[y]) = sf.width
            /\ \A y \in 0..(sf.height - 1) : \A x \in 0..(sf.width - 1) :
                  /\ b[y + 1][x + 1] = ByteAt(sf, y * sf.stride + 4 * x)
                  /\ g[y + 1][x + 1] = ByteAt(sf, y * sf.stride + 4 * x + 1)
                  /\ r[y + 1][x + 1] = ByteAt(sf, y * sf.stride + 4 * x + 2)
                  /\ a[y + 1][x + 1] = ByteAt(sf, y * sf.stride + 4 * x + 3)
            /\ sf.data = RasterData(sf.height, sf.stride, 1) =>
                  \A pl \in {r, g, b, a} : \A y \in 1..sf.height : \A x \in 1..sf.width :
                      pl[y][x] % sf.stride < 4 * sf.width

\* A padded raster of two rows whose bytes are their own offsets: the second
\* row's first pixel comes from offset 12, past the padding of the first row.
C15_Witness ==
    /\ fn_in.tag = "surface"
    /\ fn_in.surface.width = 2
    /\ fn_in.surface.height = 2
    /\ fn_in.surface.stride = 12
    /\ fn_in.surface.data = RasterData(2, 12, 1)
    /\ fn_out.tag = "channels"
    /\ fn_out.planes[3][2][1] = 12
    /\ fn_out.planes[4][2][2] = 19

-----------------------------------------------------------------------------
(* compose_image: labels, area text and boundary                           *)

\* The layer of the stack that holds the overlay o.
LayerOf(o) == layers[CHOOSE i \in 1..Len(layers) : Overlay(layers[i]) = o]

\* No label made draw_street_label_layers raise.
NoLabelRaised == \A o \in threw : o[1] # "label"

\* A projection result inside the sidecar's viewport widened by the margin
\* of 100 pixels on each side.
InViewportMargin(r) ==
    /\ r.tag = "pos"
    /\ ~FLt(r.x, FInt(0 - 100)) /\ ~FGt(r.x, FInt(sidecar.viewport[1] + 100))
    /\ ~FLt(r.y, FInt(0 - 100)) /\ ~FGt(r.y, FInt(sidecar.viewport[2] + 100))

\* C16: a label with text is dropped, without raising and without a change
\* to any other label's layer, exactly when its projected anchor is rejected
\* as behind the camera or falls outside the viewport widened by 100 pixels
\* on each side; a label whose anchor lies inside is kept (stated for the
\* runs in which no label raised).
C16_DroppedOutsideViewport ==
    (LayersDone /\ args.stage = 2 /\ NoLabelRaised) =>
        \A i \in 1..Len(sidecar.labels) :
            sidecar.labels[i].text # "" =>
                ( <<"label", i>> \in StackOverlays
                    <=> InViewportMargin(FramedProjection(sidecar.labels[i].anchor)) )

\* The positions of the boundary points that project, in boundary order.
ProjectedInOrder(b) ==
    LET idx == SelectSeq([i \in 1..Len(b) |-> i],
                         LAMBDA i : FramedProjection(b[i]).tag = "pos")
    IN  [k \in 1..Len(idx) |->
            <<FramedProjection(b[idx[k]]).x, FramedProjection(b[idx[k]]).y>>]

\* The area-text layer of the run on the same sidecar with other enu_axes.
TwinAcres(ax) ==
    LET twin == [sidecar EXCEPT !.enu_axes = ax]
    IN  draw_acres_layer(ImgSize, ImgSize, Centroid(twin), twin.acres, twin.view, twin.proj,
                         twin.viewport[1], twin.viewport[2], AcresFrame(twin), FALSE)

\* C17: boundary points and label anchors are projected through the frame
\* transform whenever the sidecar provides one; the area-text centroid is
\* projected without it, so that the run on a sidecar that differs in
\* enu_axes only has the same area-text position and the same presence of
\* the area-text layer.
C17_FrameAsymmetry ==
    LayersDone =>
        /\ <<"boundary", 0>> \in StackOverlays =>
              LayerOf(<<"boundary", 0>>).surface.pts = ProjectedInOrder(sidecar.boundary_3d)
        /\ \A i \in 1..Len(sidecar.labels) :
              <<"label", i>> \in StackOverlays =>
                  LET r == FramedProjection(sidecar.labels[i].anchor)
                  IN  LayerOf(<<"label", i>>).surface.pts = <<<<r.x, r.y>>>>
        /\ <<"acres", 0>> \in StackOverlays =>
              /\ CentroidProjection.tag = "pos"
              /\ LayerOf(<<"acres", 0>>).surface.pts =
                    <<<<CentroidProjection.x, CentroidProjection.y>>>>
        /\ (args.stage = 2 /\ <<"acres", 0>> \notin threw) =>
              \A ax \in {NoAxes, AxesSwap} :
                  IF <<"acres", 0>> \in StackOverlays
                  THEN /\ TwinAcres(ax).tag = "ok"
                       /\ TwinAcres(ax).surface.pts = LayerOf(<<"acres", 0>>).surface.pts
                  ELSE TwinAcres(ax).tag # "ok"

\* A finished run under a frame with swapped axes: the boundary lies where
\* the frame puts it, the area text where the bare origin projects.
C17_Witness ==
    /\ pc = "done"
    /\ sidecar.enu_axes = AxesSwap
    /\ sidecar.origin = OriginPt
    /\ sidecar.boundary_3d = <<PtFront, PtSide>>
    /\ <<"boundary", 0>> \in StackOverlays
    /\ LayerOf(<<"boundary", 0>>).surface.pts # <<<<FInt(50), FInt(50)>>, <<FInt(50), FInt(25)>>>>
    /\ <<"acres", 0>> \in StackOverlays
    /\ LayerOf(<<"acres", 0>>).surface.pts = <<<<FInt(75), FInt(50)>>>>

\* C18: in every layer stack the layer names are pairwise distinct.
C18_NamesDistinct ==
    \A i, j \in 1..Len(layers) : i # j => layers[i].name # layers[j].name

\* C19: the area value is formatted alike in the drawn text and in the layer
\* name: a number with one decimal place and the unit suffix, any other
\* value unchanged.
C19_AcresFormattedAlike ==
    <<"acres", 0>> \in StackOverlays =>
        LET a == sidecar.acres
            layer == LayerOf(<<"acres", 0>>)
        IN  /\ layer.name = layer.surface.text
            /\ a = AcresNumber(<<617, 50>>) => layer.name = "12.3 ACRES"
            /\ a = AcresNumber(<<5, 1>>) => layer.name = "5.0 ACRES"
            /\ ~a.numeric => layer.name = a.str

\* C20: the boundary layer is in the stack if and only if at least 2
\* boundary points project; points behind the camera are left out without an
\* error and the polyline visits the other projected points in boundary
\* order (stated for the runs in which the boundary rendering did not raise).
C20_BoundaryIffTwoProjected ==
    (LayersDone /\ <<"boundary", 0>> \notin threw) =>
        /\ <<"boundary", 0>> \in StackOverlays
              <=> Len(ProjectedInOrder(sidecar.boundary_3d)) >= 2
        /\ <<"boundary", 0>> \in StackOverlays =>
              /\ LayerOf(<<"boundary", 0>>).surface.pts = ProjectedInOrder(sidecar.boundary_3d)
              /\ LayerOf(<<"boundary", 0>>).name = "Boundary"
              /\ "boundary" \notin warned

\* A boundary whose second point lies behind the camera: the polyline joins
\* the first and the third.
C20_Witness ==
    /\ pc = "done"
    /\ sidecar.boundary_3d = <<PtFront, PtBehind, PtSide>>
    /\ sidecar.enu_axes = NoAxes
    /\ <<"boundary", 0>> \in StackOverlays
    /\ LayerOf(<<"boundary", 0>>).surface.pts = <<<<FInt(50), FInt(50)>>, <<FInt(50), FInt(25)>>>>

-----------------------------------------------------------------------------
(* compose_image: the two output files and the earlier document            *)

\* Two paths that differ in their extension only: the last token of one is
\* ".png", of the other ".psd", and the tokens before it are the same.
DifferInExtensionOnly(p, q) ==
    /\ Len(p) = Len(q)
    /\ Len(p) >= 1
    /\ p[Len(p)] = ".png"
    /\ q[Len(q)] = ".psd"
    /\ SubSeq(p, 1, Len(p) - 1) = SubSeq(q, 1, Len(q) - 1)

\* C21: when format 'both' is requested and both writes succeeded, the
\* flattened raster and the document lie at two different paths that differ
\* in their extension only, both files exist and neither write has
\* overwritten the other, for every output path.
C21_BothFilesSideBySide ==
    (pc = "done" /\ args.output_format = "both" /\ "psd" \notin warned) =>
        /\ PngPath(args) # PsdPath(args)
        /\ DifferInExtensionOnly(PngPath(args), PsdPath(args))
        /\ fs[PngPath(args)].type = "png"
        /\ fs[PsdPath(args)].type = "psd"
        /\ fs[PsdPath(args)].complete

\* C22: a complete document of an earlier run that lies at the target path
\* when the clean-up starts (export_psd raised before it wrote any byte to
\* the path) is still there, unchanged, after the clean-up; no later step
\* writes an earlier document back.
C22_EarlierDocumentKept ==
    [][ (pc = "cleanup" /\ fs[PsdPath(args)] = EarlierPsd)
            => fs'[PsdPath(args)] = EarlierPsd ]_vars

=============================================================================
